---- MODULE Spec2Model ----
(***************************************************************************)
(* Weighted influence maximisation (src/src/weighted_max_influence.cc):    *)
(* the Graph container, the Independent-Cascade rollout, the Monte Carlo   *)
(* spread estimator, the CELF driver with its OpenMP first pass, and the   *)
(* command line of main.                                                   *)
(*                                                                         *)
(* Numbers.  Node values are naturals.  Probabilities and the draws of     *)
(* uniform_real_distribution(0.0, 1.0) are counted in tenths: ProbOne is   *)
(* 1.0, DefaultProb is 0.1, a draw r is one of DrawVals (0.0 and 0.7).     *)
(* A spread estimate is total_spread / mc_rounds; the CELF variables that  *)
(* hold such doubles (marginal_gain, current_val) hold the numerator over  *)
(* the run's fixed denominator mc_rounds; the division itself is exact in  *)
(* a double when mc_rounds is a power of two.  Sums and differences of     *)
(* doubles are rounded to MantBits significant bits (Fl); the numbers of   *)
(* CelfDocs and SimDocs stay below 2^MantBits, where nothing is rounded,   *)
(* and DocWide is there for the case where something is.                   *)
(* Vectors are sequences: internal id i is position i + 1.                 *)
(***************************************************************************)
EXTENDS Integers, Sequences, FiniteSets, Bags, TLC

VARIABLES
  g,            \* the Graph a run works on
  mc_rounds,    \* rollouts per estimate
  \* ---- estimate_weighted_spread, one call in progress (SimSpec)
  seed_list,    \* the seed list of the call
  token,        \* unsigned token
  last_seen,    \* vector<unsigned> last_seen
  round,        \* loop index i
  total_spread, \* accumulator
  ro,           \* the last rollout: token used, last_seen before/after, its total
  \* ---- celf_weighted_influence and the end of main (Spec)
  k,            \* seeds wanted
  pc,           \* where the main thread is
  tpc,          \* where each worker of the parallel region is
  taken,        \* loop indices of the omp for already handed to a worker
  local_pq,     \* each worker's local_pq
  crit,         \* the worker inside the omp critical section, 0 when free
  pq,           \* the shared heap
  seeds,        \* std::set<int> seeds
  current_val,
  iteration,
  found_best,
  out,          \* the "Selected Node" lines written to std::cout, in order
  warned,       \* the "priority queue exhausted" warning was written
  printed,      \* the ids of the "Selected Seeds:" line, in order
  exit_code,    \* the process's exit code once it ended
  phase1,       \* history: the entries the first pass estimated
  evals,        \* history: per node, its latest estimator call (seed list, result,
                \* current_val at the call)
  recomputed,   \* history: per node, its re-estimations at the present seed-set size
  est_calls,    \* history: estimator calls of the second phase
  discarded,    \* history: the "already in seeds" branch was taken
  \* ---- the command line of main (MainSpec)
  argc,
  arg_k,        \* argv[2], a string
  arg_mc,       \* argv[4], a string
  file_opens,   \* whether std::ifstream opens argv[1]
  mpc,          \* where main is
  err,          \* what main wrote to std::cerr, in order
  ended,        \* "running", "exit" (main returned) or "abort" (std::terminate)
  \* ---- both versions of estimate_weighted_spread (EstSpec)
  rolls,        \* history: round index -> the total its rollout returned
  \* ---- estimate_weighted_spread of src/weighted_max_influence.cc (OpenMP)
  omp_seeds,    \* const std::set<int> &seeds
  omp_pc,       \* where the calling thread is
  omp_tpc,      \* where each thread of the team is
  omp_taken,    \* loop indices of the omp for already handed to a thread
  local_sum,    \* each thread's local_sum
  omp_total_spread, \* the shared total_spread
  omp_ret,      \* the returned value (its numerator over MC_ROUNDS) once returned
  \* ---- a Graph under construction (GraphSpec)
  first_seen,   \* history: the external ids in order of first appearance
  valued,       \* history: the external ids set_node_value was called with
  ops,          \* number of calls made
  last_call     \* history: the last get_internal_id: graph before, argument, result

simVars == <<seed_list, token, last_seen, round, total_spread, ro>>
histVars == <<evals, recomputed, est_calls, discarded>>
celfVars == <<k, pc, tpc, taken, local_pq, crit, pq, seeds, current_val, iteration,
              found_best, out, warned, printed, exit_code, phase1, histVars>>
mainVars == <<argc, arg_k, arg_mc, file_opens, mpc, err, ended>>
ompVars == <<omp_seeds, omp_pc, omp_tpc, omp_taken, local_sum, omp_total_spread, omp_ret>>
graphVars == <<first_seen, valued, ops, last_call>>
vars == <<g, mc_rounds, simVars, celfVars, mainVars, rolls, ompVars, graphVars>>

\* ------------------------------------------------------------------ bounds
ProbOne == 10
DefaultProb == 1
DrawVals == {0, 7}
TokenBits == 2
MaxSimRounds == 4
MaxSeedLen == 2
MaxK == 3
MaxRounds == 2
NumThreads == 2
MaxArgc == 6
MaxArgLen == 2

MantBits == 6
MaxOmpRounds == 3
MaxOps == 3

TokenMod == 2 ^ TokenBits

\* ------------------------------------------------------------------ double
\* A double holds a sign and MantBits significant bits; the result of + and -
\* is the representable number nearest to the exact one, ties to the even
\* significand (no overflow, no subnormals in the range modelled).
Abs(x) == IF x < 0 THEN 0 - x ELSE x

\* the spacing of the representable numbers around magnitude a
RECURSIVE Ulp(_, _)
Ulp(a, u) == IF a < (2 ^ MantBits) * u THEN u ELSE Ulp(a, 2 * u)

Fl(x) ==
  LET a == Abs(x)
      u == Ulp(a, 1)
      q == a \div u
      r == a % u
      m == IF 2 * r > u \/ (2 * r = u /\ q % 2 = 1) THEN q + 1 ELSE q
  IN IF x < 0 THEN 0 - m * u ELSE m * u

Representable(x) == Fl(x) = x

DAdd(x, y) == Fl(x + y)
DSub(x, y) == Fl(x - y)

\* get_xml_attr returns "" for an absent attribute; a present number is <<x>>
NoVal == <<>>
Num(x) == <<x>>

\* ------------------------------------------------------------------- Graph
EmptyGraph ==
  [id_map |-> <<>>, reverse_id_map |-> <<>>, adj |-> <<>>,
   node_values |-> <<>>, has_value |-> <<>>]

\* mutant: resize taken as "grow by n"
ResizeBy(v, n, fill) == v \o [i \in 1..n |-> fill]

\* std::vector::resize(n, fill)
Resize(v, n, fill) ==
  IF Len(v) >= n THEN SubSeq(v, 1, n)
  ELSE v \o [i \in 1..(n - Len(v)) |-> fill]

get_internal_id(gr, gexf_id) ==
  IF gexf_id \notin DOMAIN gr.id_map
  THEN LET new_id == Len(gr.reverse_id_map) IN
       [g |-> [id_map |-> gr.id_map @@ (gexf_id :> new_id),
               reverse_id_map |-> Append(gr.reverse_id_map, gexf_id),
               adj |-> Resize(gr.adj, new_id + 1, <<>>),
               node_values |-> Resize(gr.node_values, new_id + 1, 0),
               has_value |-> Resize(gr.has_value, new_id + 1, FALSE)],
        id |-> new_id]
  ELSE [g |-> gr, id |-> gr.id_map[gexf_id]]

add_edge(gr, src, target, prob) ==
  LET a == get_internal_id(gr, src)
      b == get_internal_id(a.g, target)
  IN [b.g EXCEPT !.adj[a.id + 1] = Append(@, [to |-> b.id, probability |-> prob])]

set_node_value(gr, gexf_id, val) ==
  LET a == get_internal_id(gr, gexf_id)
  IN [a.g EXCEPT !.node_values[a.id + 1] = val, !.has_value[a.id + 1] = TRUE]

num_nodes(gr) == Len(gr.reverse_id_map)

\* ------------------------------------------------------------- GEXFParser
\* The document after tag scraping: its <node> tags (id, value of the target
\* attribute or NoVal) and its <edge> tags (source, target, weight or NoVal).
RECURSIVE ParseNodes(_, _)
ParseNodes(gr, nodes) ==
  IF nodes = <<>> THEN gr
  ELSE LET nd == Head(nodes)
           g1 == IF nd.id # "" THEN get_internal_id(gr, nd.id).g ELSE gr
           g2 == IF nd.id # "" /\ nd.val # NoVal
                 THEN set_node_value(g1, nd.id, nd.val[1]) ELSE g1
       IN ParseNodes(g2, Tail(nodes))

RECURSIVE ParseEdges(_, _)
ParseEdges(gr, edges) ==
  IF edges = <<>> THEN gr
  ELSE LET e == Head(edges)
           prob == IF e.w # NoVal THEN e.w[1] ELSE DefaultProb
           g1 == IF e.s # "" /\ e.t # "" THEN add_edge(gr, e.s, e.t, prob) ELSE gr
       IN ParseEdges(g1, Tail(edges))

parse(doc) == ParseEdges(ParseNodes(EmptyGraph, doc.nodes), doc.edges)

N(id, val) == [id |-> id, val |-> Num(val)]
N0(id) == [id |-> id, val |-> NoVal]
E(s, t, w) == [s |-> s, t |-> t, w |-> Num(w)]
E0(s, t) == [s |-> s, t |-> t, w |-> NoVal]

\* A seeds two value-5 nodes with probability 0.5 each
DocFork ==
  [nodes |-> <<N("A", 0), N("C", 5), N("D", 5)>>,
   edges |-> <<E("A", "C", 5), E("A", "D", 5)>>]
\* B carries no value: created by its <node> tag and as an edge endpoint
DocChain ==
  [nodes |-> <<N("A", 1), N0("B"), N("C", 2)>>,
   edges |-> <<E("A", "B", 5), E("B", "C", ProbOne)>>]
\* no edges, a tie between B and C above A
DocTriple ==
  [nodes |-> <<N("A", 1), N("B", 5), N("C", 5)>>, edges |-> <<>>]
\* a self-loop, two parallel edges, a cycle, an edge of default weight
DocLoop ==
  [nodes |-> <<N("A", 1), N("B", 2)>>,
   edges |-> <<E("A", "A", ProbOne), E("A", "B", 5), E("A", "B", 5),
               E0("B", "A")>>]

\* certain edges only: A and B both cover C
DocCover ==
  [nodes |-> <<N("A", 1), N("B", 0), N("C", 5), N("D", 4)>>,
   edges |-> <<E("A", "C", ProbOne), E("B", "C", ProbOne)>>]
\* certain edges only: a chain
DocLine ==
  [nodes |-> <<N("A", 2), N("B", 3), N("C", 4)>>,
   edges |-> <<E("A", "B", ProbOne), E("B", "C", ProbOne)>>]
\* three children whose values add up to a number that needs rounding
DocWide ==
  [nodes |-> <<N("A", 0), N("C", 43), N("D", 43), N("E", 43)>>,
   edges |-> <<E("A", "C", 5), E("A", "D", 5), E("A", "E", 5)>>]
\* an edge of weight 0.0
DocZero ==
  [nodes |-> <<N("A", 1), N("B", 1)>>, edges |-> <<E("A", "B", 0)>>]

SimDocs == {DocFork, DocChain, DocLoop, DocZero}

\* ---------------------------------------------------------- the simulator
RECURSIVE SumLen(_)
SumLen(ss) == IF ss = <<>> THEN 0 ELSE Len(Head(ss)) + SumLen(Tail(ss))
NumEdges(gr) == SumLen(gr.adj)

DrawSeqs(n) == [1..n -> DrawVals]

\* the nodes the frontier can hold: the seeds and whatever an edge leads to
RECURSIVE Frontier(_, _)
Frontier(gr, S) ==
  LET nxt == S \cup UNION {{gr.adj[u + 1][j].to : j \in 1..Len(gr.adj[u + 1])} : u \in S}
  IN IF nxt = S THEN S ELSE Frontier(gr, nxt)

RECURSIVE OutDegrees(_, _)
OutDegrees(gr, S) ==
  IF S = {} THEN 0
  ELSE LET u == CHOOSE x \in S : TRUE
       IN Len(gr.adj[u + 1]) + OutDegrees(gr, S \ {u})

\* a node is dequeued at most once per rollout and draws once per outgoing
\* edge, so a rollout from sl draws at most this many numbers
MaxDraws(gr, sl) == OutDegrees(gr, Frontier(gr, {sl[j] : j \in 1..Len(sl)}))

\* mutant: the value is added for every occurrence of a seed, marked or not
RECURSIVE SeedLoopCountsRepeats(_, _, _, _)
SeedLoopCountsRepeats(gr, seeds_left, st, seen_token) ==
  IF seeds_left = <<>> THEN st
  ELSE LET s == Head(seeds_left)
           st1 == [st EXCEPT !.total_value = DAdd(@, gr.node_values[s + 1])]
       IN SeedLoopCountsRepeats(gr, Tail(seeds_left),
                IF st.last_seen[s + 1] # seen_token
                THEN [st1 EXCEPT !.last_seen[s + 1] = seen_token, !.q = Append(@, s)]
                ELSE st1,
                seen_token)

\* for (int s : seed_list)
RECURSIVE SeedLoop(_, _, _, _)
SeedLoop(gr, seeds_left, st, seen_token) ==
  IF seeds_left = <<>> THEN st
  ELSE LET s == Head(seeds_left) IN
       SeedLoop(gr, Tail(seeds_left),
                IF st.last_seen[s + 1] # seen_token
                THEN [st EXCEPT !.last_seen[s + 1] = seen_token,
                                !.q = Append(@, s),
                                !.total_value = DAdd(@, gr.node_values[s + 1])]
                ELSE st,
                seen_token)

\* r <= edge.probability
Activates(r, probability) == r <= probability

\* for (const auto &edge : g.adj[u])
RECURSIVE EdgeLoop(_, _, _, _)
EdgeLoop(gr, edges_left, st, seen_token) ==
  IF edges_left = <<>> THEN st
  ELSE LET edge == Head(edges_left)
           v == edge.to
       IN EdgeLoop(gr, Tail(edges_left),
                   IF st.last_seen[v + 1] # seen_token
                   THEN LET r == Head(st.draws)
                            st1 == [st EXCEPT !.draws = Tail(@)]
                        IN IF Activates(r, edge.probability)
                           THEN [st1 EXCEPT !.last_seen[v + 1] = seen_token,
                                            !.total_value = DAdd(@, gr.node_values[v + 1]),
                                            !.q = Append(@, v)]
                           ELSE st1
                   ELSE st,
                   seen_token)

\* while (!q.empty())
RECURSIVE BfsLoop(_, _, _)
BfsLoop(gr, st, seen_token) ==
  IF st.q = <<>> THEN st
  ELSE LET u == Head(st.q)
       IN BfsLoop(gr, EdgeLoop(gr, gr.adj[u + 1], [st EXCEPT !.q = Tail(@)], seen_token),
                  seen_token)

\* draws: the successive values dist(rng) returns
run_weighted_simulation_token(gr, sl, draws, seen, seen_token) ==
  BfsLoop(gr,
          SeedLoop(gr, sl,
                   [last_seen |-> seen, q |-> <<>>, total_value |-> 0, draws |-> draws],
                   seen_token),
          seen_token)

\* ---------------------------------------------------------- the estimator
EstimateStart(gr, draws) ==
  [token |-> 1, last_seen |-> [i \in 1..num_nodes(gr) |-> 0], total_spread |-> 0,
   draws |-> draws, before |-> <<>>, total |-> 0]

\* mutant: the token restarts at 1 but the marks are kept
WrapKeepsMarks(seen) == seen

\* std::fill(last_seen.begin(), last_seen.end(), 0u)
WrapReset(seen) == [i \in 1..Len(seen) |-> 0]

\* one pass of for (int i = 0; i < mc_rounds; ++i)
EstimateRound(gr, sl, es) ==
  LET inc == (es.token + 1) % TokenMod
      tk == IF inc = 0 THEN 1 ELSE inc
      ls == IF inc = 0 THEN WrapReset(es.last_seen) ELSE es.last_seen
      r == run_weighted_simulation_token(gr, sl, es.draws, ls, tk)
  IN [token |-> tk, last_seen |-> r.last_seen,
      total_spread |-> DAdd(es.total_spread, r.total_value),
      draws |-> r.draws, before |-> ls, total |-> r.total_value]

RECURSIVE EstimateLoop(_, _, _, _)
EstimateLoop(gr, sl, n, es) ==
  IF n = 0 THEN es ELSE EstimateLoop(gr, sl, n - 1, EstimateRound(gr, sl, es))

\* the numerator total_spread of the returned total_spread / double(mc_rounds)
estimate_weighted_spread(gr, sl, rounds, draws) ==
  EstimateLoop(gr, sl, rounds, EstimateStart(gr, draws)).total_spread

\* ------------------------------------------------ SimSpec: one estimate call
SeedLists(gr) ==
  UNION {[1..n -> 0..(num_nodes(gr) - 1)] : n \in 1..MaxSeedLen}

NoRollout == [token |-> 0, before |-> <<>>, after |-> <<>>, total |-> 0]

MainIdle ==
  /\ argc = 0 /\ arg_k = <<>> /\ arg_mc = <<>> /\ file_opens = TRUE /\ mpc = "idle"
  /\ err = <<>> /\ ended = "running"

HistIdle == evals = <<>> /\ recomputed = <<>> /\ est_calls = 0 /\ discarded = FALSE

CelfIdle ==
  /\ pc = "idle" /\ tpc = <<>> /\ taken = {} /\ local_pq = <<>> /\ crit = 0
  /\ pq = EmptyBag /\ seeds = {} /\ current_val = 0 /\ iteration = 0
  /\ found_best = FALSE /\ out = <<>> /\ warned = FALSE /\ printed = <<>>
  /\ phase1 = EmptyBag /\ HistIdle

OmpIdle ==
  /\ omp_seeds = {} /\ omp_pc = "idle" /\ omp_tpc = <<>> /\ omp_taken = {}
  /\ local_sum = <<>> /\ omp_total_spread = 0 /\ omp_ret = NoVal

GraphIdle ==
  /\ first_seen = <<>> /\ valued = {} /\ ops = 0 /\ last_call = <<>>

SimInit ==
  /\ CelfIdle /\ MainIdle /\ OmpIdle /\ GraphIdle /\ k = 0 /\ exit_code = -1
  /\ rolls = <<>>
  /\ g \in {parse(d) : d \in SimDocs}
  /\ mc_rounds \in 1..MaxSimRounds
  /\ seed_list \in SeedLists(g)
  /\ token = 1
  /\ last_seen = [i \in 1..num_nodes(g) |-> 0]
  /\ round = 0
  /\ total_spread = 0
  /\ ro = NoRollout

SimRound ==
  /\ token # 0            \* a call is in progress
  /\ round < mc_rounds
  /\ \E d \in DrawSeqs(NumEdges(g)) :
       LET es == EstimateRound(g, seed_list,
                   [token |-> token, last_seen |-> last_seen,
                    total_spread |-> total_spread, draws |-> d])
       IN /\ token' = es.token
          /\ last_seen' = es.last_seen
          /\ total_spread' = es.total_spread
          /\ ro' = [token |-> es.token, before |-> es.before,
                    after |-> es.last_seen, total |-> es.total]
          /\ rolls' = (round :> es.total) @@ rolls
  /\ round' = round + 1
  /\ UNCHANGED <<g, mc_rounds, seed_list, celfVars, mainVars, ompVars, graphVars>>

SimNext == SimRound

SimSpec == SimInit /\ [][SimNext]_vars

\* ------------------------------------------------------------ the CELF heap
NodeGain(node_id, marginal_gain, iteration_computed) ==
  [node_id |-> node_id, marginal_gain |-> marginal_gain,
   iteration_computed |-> iteration_computed]

\* mutant: the tie goes to the larger node_id
NodeGainLessTieFlipped(a, b) ==
  IF a.marginal_gain = b.marginal_gain
  THEN a.node_id < b.node_id
  ELSE a.marginal_gain < b.marginal_gain

\* NodeGain::operator<
NodeGainLess(a, b) ==
  IF a.marginal_gain = b.marginal_gain
  THEN a.node_id > b.node_id
  ELSE a.marginal_gain < b.marginal_gain

\* std::priority_queue: top() is an element no other element is greater than
Tops(h) == {e \in BagToSet(h) : \A f \in BagToSet(h) : ~NodeGainLess(e, f)}
\* mutant: every push enters the element twice
PushTwice(h, e) == h (+) SetToBag({e}) (+) SetToBag({e})

Push(h, e) == h (+) SetToBag({e})
Pop(h, e) == h (-) SetToBag({e})

\* iteration of a std::set<int>: ascending
RECURSIVE SetToSortedSeq(_)
SetToSortedSeq(S) ==
  IF S = {} THEN <<>>
  ELSE LET m == CHOOSE x \in S : \A y \in S : x <= y
       IN <<m>> \o SetToSortedSeq(S \ {m})

\* ------------------------------------------------- Spec: one run of the CELF
CelfDocs == {DocFork, DocChain, DocTriple}
Threads == 1..NumThreads
Indices == 0..(num_nodes(g) - 1)

SimIdle ==
  /\ seed_list = <<>> /\ token = 0 /\ last_seen = <<>> /\ round = 0
  /\ total_spread = 0 /\ ro = NoRollout

\* the state at the call celf_weighted_influence(g, k, mc_rounds)
CelfInit(docs, rounds) ==
  /\ SimIdle /\ MainIdle /\ OmpIdle /\ GraphIdle /\ HistIdle /\ rolls = <<>>
  /\ g \in {parse(d) : d \in docs}
  /\ mc_rounds \in rounds
  /\ k \in 0..MaxK
  /\ pc = "parallel"
  /\ tpc = [t \in Threads |-> "for"]
  /\ taken = {}
  /\ local_pq = [t \in Threads |-> EmptyBag]
  /\ crit = 0
  /\ pq = EmptyBag
  /\ seeds = {}
  /\ current_val = 0
  /\ iteration = 0
  /\ found_best = FALSE
  /\ out = <<>>
  /\ warned = FALSE
  /\ printed = <<>>
  /\ exit_code = -1
  /\ phase1 = EmptyBag

Init == CelfInit(CelfDocs, 1..MaxRounds)

EstimateDraws(sl) == DrawSeqs(mc_rounds * MaxDraws(g, sl))

\* the entry the first pass pushes for index i
Phase1Entry(i, d) == NodeGain(i, estimate_weighted_spread(g, <<i>>, mc_rounds, d), 0)

\* mutant: candidacy by value != 0 or a non-empty adjacency list
EligibleByValueOrEdges(i) == g.node_values[i + 1] # 0 \/ g.adj[i + 1] # <<>>

\* if (!g.has_value[i]) continue;
Eligible(i) == g.has_value[i + 1]

\* one index of the omp for, run by worker t
Phase1Iter(t, i) ==
  /\ pc = "parallel" /\ tpc[t] = "for" /\ i \notin taken
  /\ taken' = taken \cup {i}
  /\ IF ~Eligible(i)
     THEN UNCHANGED <<local_pq, phase1, evals>>
     ELSE \E e \in {Phase1Entry(i, d) : d \in EstimateDraws(<<i>>)} :
            /\ local_pq' = [local_pq EXCEPT ![t] = Push(@, e)]
            /\ phase1' = Push(phase1, e)
            /\ evals' = (i :> [sl |-> <<i>>, est |-> e.marginal_gain, val |-> 0]) @@ evals
  /\ UNCHANGED <<g, mc_rounds, simVars, rolls, ompVars, graphVars, recomputed, est_calls,
                 discarded,
                 mainVars, k, pc, tpc, crit, pq, seeds, current_val,
                 iteration, found_best, out, warned, printed, exit_code>>

\* nowait: a worker whose share of the loop is done goes on to the critical
\* section; the indices not handed out yet go to the workers still in the loop
LoopShareDone(t) == taken = Indices \/ \E u \in Threads \ {t} : tpc[u] = "for"

EnterCritical(t) ==
  /\ pc = "parallel" /\ tpc[t] = "for" /\ LoopShareDone(t)
  /\ crit = 0
  /\ crit' = t
  /\ tpc' = [tpc EXCEPT ![t] = "critical"]
  /\ UNCHANGED <<g, mc_rounds, simVars, rolls, ompVars, graphVars, histVars,
                 mainVars, k, pc, taken, local_pq, pq, seeds, current_val,
                 iteration, found_best, out, warned, printed, exit_code, phase1>>

\* pq.push(local_pq.top()); local_pq.pop();
MergeStep(t) ==
  /\ pc = "parallel" /\ tpc[t] = "critical" /\ local_pq[t] # EmptyBag
  /\ \E e \in Tops(local_pq[t]) :
       /\ pq' = Push(pq, e)
       /\ local_pq' = [local_pq EXCEPT ![t] = Pop(@, e)]
  /\ UNCHANGED <<g, mc_rounds, simVars, rolls, ompVars, graphVars, histVars,
                 mainVars, k, pc, tpc, taken, crit, seeds, current_val,
                 iteration, found_best, out, warned, printed, exit_code, phase1>>

LeaveCritical(t) ==
  /\ pc = "parallel" /\ tpc[t] = "critical" /\ local_pq[t] = EmptyBag
  /\ crit' = 0
  /\ tpc' = [tpc EXCEPT ![t] = "done"]
  /\ UNCHANGED <<g, mc_rounds, simVars, rolls, ompVars, graphVars, histVars,
                 mainVars, k, pc, taken, local_pq, pq, seeds, current_val,
                 iteration, found_best, out, warned, printed, exit_code, phase1>>

\* mutant: the main thread goes on as soon as one worker is through
Phase1JoinedAny == \E t \in Threads : tpc[t] = "done"

\* the implicit barrier that ends the parallel region
Phase1Joined == \A t \in Threads : tpc[t] = "done"

Join ==
  /\ pc = "parallel" /\ Phase1Joined
  /\ current_val' = 0
  /\ iteration' = 0
  /\ pc' = "for"
  /\ UNCHANGED <<g, mc_rounds, simVars, rolls, ompVars, graphVars, histVars,
                 mainVars, k, tpc, taken, local_pq, crit, pq, seeds,
                 found_best, out, warned, printed, exit_code, phase1>>

\* for (int iteration = 0; iteration < k; ++iteration) { bool found_best = false;
\* mutant: one iteration too many
ForCondOffByOne == iteration <= k

ForCond == iteration < k

ForTest ==
  /\ pc = "for"
  /\ IF ForCond
     THEN found_best' = FALSE /\ pc' = "while"
     ELSE UNCHANGED found_best /\ pc' = "return"
  /\ UNCHANGED <<g, mc_rounds, simVars, rolls, ompVars, graphVars, histVars,
                 mainVars, k, tpc, taken, local_pq, crit, pq, seeds,
                 current_val, iteration, out, warned, printed, exit_code, phase1>>

\* mutant: the recomputed entry is stamped one ahead
StampAhead(top) == Cardinality(seeds) + 1

\* mutant: the recomputed entry keeps the stamp it was popped with
StampKept(top) == top.iteration_computed

\* (int)seeds.size() of the pushed entry
Stamp(top) == Cardinality(seeds)

\* mutant: = instead of +=
CommittedValAssigned(top) == top.marginal_gain

\* current_val += top.marginal_gain
CommittedVal(top) == DAdd(current_val, top.marginal_gain)

\* mutant: every popped entry counts as fresh
FreshAlways(top) == TRUE

\* top.iteration_computed == (int)seeds.size()
Fresh(top) == top.iteration_computed = Cardinality(seeds)

\* mutant: the estimate is taken for the popped node alone
TempSeedsAlone(top) == <<top.node_id>>

\* std::vector<int> temp_seeds(seeds.begin(), seeds.end()); push_back(top.node_id)
TempSeeds(top) == Append(SetToSortedSeq(seeds), top.node_id)

NewVal(top, d) == estimate_weighted_spread(g, TempSeeds(top), mc_rounds, d)

\* mutant: the estimate itself is pushed as the gain
MarginalGainAbsolute(new_val) == new_val

\* double marginal_gain = new_val - current_val
MarginalGain(new_val) == DSub(new_val, current_val)

\* the entry pushed for a stale top
Recomputed(top, new_val) == NodeGain(top.node_id, MarginalGain(new_val), Stamp(top))

Count(f, x) == IF x \in DOMAIN f THEN f[x] ELSE 0
Min(a, b) == IF a < b THEN a ELSE b

\* the histories count up to one past what the claims allow, and stay there
CallCap == k * Cardinality({i \in Indices : Eligible(i)}) + 1

\* the histories after the estimator call for a stale top
Evaluated(h, top, new_val) ==
  [h EXCEPT !.evals = (top.node_id :> [sl |-> TempSeeds(top), est |-> new_val,
                                       val |-> current_val]) @@ evals,
            !.recomputed = (top.node_id :> Min(Count(recomputed, top.node_id) + 1, 2))
                             @@ recomputed,
            !.est_calls = Min(est_calls + 1, CallCap)]

\* what the commit of top changes
Committed(h, top) ==
  [h EXCEPT !.seeds = seeds \cup {top.node_id},
            !.current_val = CommittedVal(top),
            !.found_best = TRUE,
            !.out = Append(out, [node_id |-> top.node_id,
                                 marginal_gain |-> top.marginal_gain,
                                 reach |-> CommittedVal(top)]),
            !.recomputed = <<>>]

\* mutant: no membership test, and the committed top is read but not popped
LoopBodyPeek(top, d) ==
  LET new_val == NewVal(top, d)
      same == [pq |-> pq, seeds |-> seeds, current_val |-> current_val,
               found_best |-> found_best, out |-> out, evals |-> evals,
               recomputed |-> recomputed, est_calls |-> est_calls,
               discarded |-> discarded]
  IN IF Fresh(top)
     THEN Committed(same, top)
     ELSE [Evaluated(same, top, new_val)
             EXCEPT !.pq = Push(Pop(pq, top), Recomputed(top, new_val))]

\* the body of while (!found_best && !pq.empty()) for the popped top
LoopBody(top, d) ==
  LET rest == Pop(pq, top)
      new_val == NewVal(top, d)
      same == [pq |-> rest, seeds |-> seeds, current_val |-> current_val,
               found_best |-> found_best, out |-> out, evals |-> evals,
               recomputed |-> recomputed, est_calls |-> est_calls,
               discarded |-> discarded]
  IN IF top.node_id \in seeds
     THEN [same EXCEPT !.discarded = TRUE]
     ELSE IF Fresh(top)
     THEN Committed(same, top)
     ELSE [Evaluated(same, top, new_val) EXCEPT !.pq = Push(rest, Recomputed(top, new_val))]

\* while (!found_best && !pq.empty())
WhileCond == ~found_best /\ pq # EmptyBag

WhileStep ==
  /\ pc = "while" /\ WhileCond
  /\ \E top \in Tops(pq) :
       \E d \in (IF top.iteration_computed # Cardinality(seeds)
                 THEN EstimateDraws(TempSeeds(top))
                 ELSE {<<>>}) :
         \E nx \in {LoopBody(top, d)} :
            /\ pq' = nx.pq
            /\ seeds' = nx.seeds
            /\ current_val' = nx.current_val
            /\ found_best' = nx.found_best
            /\ out' = nx.out
            /\ evals' = nx.evals
            /\ recomputed' = nx.recomputed
            /\ est_calls' = nx.est_calls
            /\ discarded' = nx.discarded
  /\ UNCHANGED <<g, mc_rounds, simVars, rolls, ompVars, graphVars,
                 mainVars, k, pc, tpc, taken, local_pq, crit, iteration,
                 warned, printed, exit_code, phase1>>

\* the while loop is left: if (!found_best) { warning; break; } else ++iteration
WhileExit ==
  /\ pc = "while" /\ ~WhileCond
  /\ IF ~found_best
     THEN warned' = TRUE /\ pc' = "return" /\ UNCHANGED iteration
     ELSE iteration' = iteration + 1 /\ pc' = "for" /\ UNCHANGED warned
  /\ UNCHANGED <<g, mc_rounds, simVars, rolls, ompVars, graphVars, histVars,
                 mainVars, k, tpc, taken, local_pq, crit, pq, seeds,
                 current_val, found_best, out, printed, exit_code, phase1>>

\* return seeds; then main: for (int s : seeds) cout << reverse_id_map[s]; return 0
SelectedSeedsLine(returned) ==
  [j \in 1..Cardinality(returned) |-> g.reverse_id_map[SetToSortedSeq(returned)[j] + 1]]

MainPrint ==
  /\ pc = "return"
  /\ printed' = SelectedSeedsLine(seeds)
  /\ exit_code' = 0
  /\ pc' = "exit"
  /\ UNCHANGED <<g, mc_rounds, simVars, rolls, ompVars, graphVars, histVars,
                 mainVars, k, tpc, taken, local_pq, crit, pq, seeds,
                 current_val, iteration, found_best, out, warned, phase1>>

Next ==
  \/ \E t \in Threads : \E i \in Indices : Phase1Iter(t, i)
  \/ \E t \in Threads : EnterCritical(t)
  \/ \E t \in Threads : MergeStep(t)
  \/ \E t \in Threads : LeaveCritical(t)
  \/ Join
  \/ ForTest
  \/ WhileStep
  \/ WhileExit
  \/ MainPrint

Spec == Init /\ [][Next]_vars

\* runs on graphs whose edges all have probability 1.0: every draw of [0,1)
\* activates, so the estimate of a seed list is the same number in every call
DetDocs == {DocTriple, DocCover, DocLine}
DetInit == CelfInit(DetDocs, 1..MaxRounds)
DetSpec == DetInit /\ [][Next]_vars

\* runs with one rollout per estimate on a graph whose sums are rounded
FpInit == CelfInit({DocWide}, {1})
FpSpec == FpInit /\ [][Next]_vars

\* the main thread is scheduled: a step of the sequential loop that can be taken
\* is eventually taken
\* WhileStep can be taken exactly when pc = "while" /\ WhileCond (a top and a
\* draw sequence always exist, and the pop changes pq), so its weak fairness
\* is written with that state predicate for ENABLED <<WhileStep>>_vars.
LiveSpec ==
  /\ Spec
  /\ WF_vars(ForTest) /\ WF_vars(WhileExit)
  /\ ([]<>(~(pc = "while" /\ WhileCond)) \/ []<><<WhileStep>>_vars)

\* ------------- estimate_weighted_spread of src/weighted_max_influence.cc
\* for (int seed : seeds) { q.push(seed); total_value += g.node_values[seed]; }
RECURSIVE SeedTotal(_, _, _)
SeedTotal(gr, seeds_left, acc) ==
  IF seeds_left = <<>> THEN acc
  ELSE SeedTotal(gr, Tail(seeds_left), DAdd(acc, gr.node_values[Head(seeds_left) + 1]))

\* for (const auto &edge : g.adj[u]), activation kept in active_set
RECURSIVE OmpEdgeLoop(_, _, _)
OmpEdgeLoop(gr, edges_left, st) ==
  IF edges_left = <<>> THEN st
  ELSE LET edge == Head(edges_left)
           v == edge.to
       IN OmpEdgeLoop(gr, Tail(edges_left),
                      IF v \notin st.active_set
                      THEN LET r == Head(st.draws)
                               st1 == [st EXCEPT !.draws = Tail(@)]
                           IN IF Activates(r, edge.probability)
                              THEN [st1 EXCEPT !.active_set = @ \cup {v},
                                               !.total_value = DAdd(@, gr.node_values[v + 1]),
                                               !.q = Append(@, v)]
                              ELSE st1
                      ELSE st)

RECURSIVE OmpBfsLoop(_, _)
OmpBfsLoop(gr, st) ==
  IF st.q = <<>> THEN st
  ELSE OmpBfsLoop(gr, OmpEdgeLoop(gr, gr.adj[Head(st.q) + 1], [st EXCEPT !.q = Tail(@)]))

run_weighted_simulation(gr, S, draws) ==
  OmpBfsLoop(gr, [active_set |-> S, q |-> SetToSortedSeq(S),
                  total_value |-> SeedTotal(gr, SetToSortedSeq(S), 0),
                  draws |-> draws])

SeedSets(gr) ==
  {S \in SUBSET (0..(num_nodes(gr) - 1)) : Cardinality(S) \in 1..MaxSeedLen}

\* mc_rounds stands for the constant MC_ROUNDS of that version
OmpRounds == 0..(mc_rounds - 1)

OmpInit ==
  /\ SimIdle /\ CelfIdle /\ MainIdle /\ GraphIdle /\ k = 0 /\ exit_code = -1
  /\ g \in {parse(d) : d \in SimDocs}
  /\ mc_rounds \in 1..MaxOmpRounds
  /\ omp_seeds \in SeedSets(g)
  /\ omp_pc = "parallel"
  /\ omp_tpc = [t \in Threads |-> "for"]
  /\ omp_taken = {}
  /\ local_sum = [t \in Threads |-> 0]
  /\ omp_total_spread = 0
  /\ omp_ret = NoVal
  /\ rolls = <<>>

\* local_sum += run_weighted_simulation(g, seeds, rng): round i, run by thread t
OmpIter(t, i) ==
  /\ omp_pc = "parallel" /\ omp_tpc[t] = "for" /\ i \in OmpRounds \ omp_taken
  /\ omp_taken' = omp_taken \cup {i}
  /\ \E tv \in {run_weighted_simulation(g, omp_seeds, d).total_value :
                  d \in DrawSeqs(MaxDraws(g, SetToSortedSeq(omp_seeds)))} :
       /\ local_sum' = [local_sum EXCEPT ![t] = DAdd(@, tv)]
       /\ rolls' = (i :> tv) @@ rolls
  /\ UNCHANGED <<g, mc_rounds, simVars, celfVars, mainVars, graphVars, omp_seeds, omp_pc,
                 omp_tpc, omp_total_spread, omp_ret>>

\* mutant: the shared accumulator is overwritten
AccumulateAssigned(total, local) == local

\* total_spread += local_sum
Accumulate(total, local) == DAdd(total, local)

\* #pragma omp atomic, reached without waiting for the other threads (nowait)
OmpAtomic(t) ==
  /\ omp_pc = "parallel" /\ omp_tpc[t] = "for"
  /\ omp_taken = OmpRounds \/ \E u \in Threads \ {t} : omp_tpc[u] = "for"
  /\ omp_total_spread' = Accumulate(omp_total_spread, local_sum[t])
  /\ omp_tpc' = [omp_tpc EXCEPT ![t] = "done"]
  /\ UNCHANGED <<g, mc_rounds, simVars, celfVars, mainVars, graphVars, rolls, omp_seeds,
                 omp_pc, omp_taken, local_sum, omp_ret>>

\* the barrier that ends the parallel region; return total_spread / MC_ROUNDS
OmpReturn ==
  /\ omp_pc = "parallel" /\ \A t \in Threads : omp_tpc[t] = "done"
  /\ omp_ret' = Num(omp_total_spread)
  /\ omp_pc' = "returned"
  /\ UNCHANGED <<g, mc_rounds, simVars, celfVars, mainVars, graphVars, rolls, omp_seeds,
                 omp_tpc, omp_taken, local_sum, omp_total_spread>>

OmpNext ==
  \/ \E t \in Threads : \E i \in OmpRounds : OmpIter(t, i)
  \/ \E t \in Threads : OmpAtomic(t)
  \/ OmpReturn

\* one call of estimate_weighted_spread, in either version
EstInit == SimInit \/ OmpInit
EstNext == SimRound \/ OmpNext
EstSpec == EstInit /\ [][EstNext]_vars

\* --------------------------------- GraphSpec: a Graph under construction
\* The Graph is filled by calls of its three member functions, made directly
\* or by the two loops of GEXFParser::parse, one tag at a time.
ExtIds == {"a", "b", "c"}
NodeTags == {[id |-> i, val |-> v] : i \in {"c", ""}, v \in {NoVal, Num(3)}}
EdgeTags ==
  {[s |-> a, t |-> "b", w |-> w] :
     a \in {"a", ""}, w \in {NoVal, Num(0 - 3), Num(ProbOne), Num(15)}}

\* history: x joins the ids seen, in order of first appearance
NoteSeen(fs, x) == IF \E j \in 1..Len(fs) : fs[j] = x THEN fs ELSE Append(fs, x)

GraphInit ==
  /\ SimIdle /\ CelfIdle /\ MainIdle /\ OmpIdle /\ rolls = <<>>
  /\ k = 0 /\ exit_code = -1 /\ mc_rounds = 1
  /\ g = EmptyGraph
  /\ first_seen = <<>>
  /\ valued = {}
  /\ ops = 0
  /\ last_call = <<>>

GraphGetId(x) ==
  /\ ops < MaxOps
  /\ g' = get_internal_id(g, x).g
  /\ first_seen' = NoteSeen(first_seen, x)
  /\ last_call' = <<[before |-> g, arg |-> x, id |-> get_internal_id(g, x).id]>>
  /\ ops' = ops + 1
  /\ UNCHANGED <<mc_rounds, simVars, celfVars, mainVars, rolls, ompVars, valued>>

GraphAddEdge(src, target, prob) ==
  /\ ops < MaxOps
  /\ g' = add_edge(g, src, target, prob)
  /\ first_seen' = NoteSeen(NoteSeen(first_seen, src), target)
  /\ ops' = ops + 1
  /\ UNCHANGED <<mc_rounds, simVars, celfVars, mainVars, rolls, ompVars, valued, last_call>>

GraphSetValue(x, val) ==
  /\ ops < MaxOps
  /\ g' = set_node_value(g, x, val)
  /\ first_seen' = NoteSeen(first_seen, x)
  /\ valued' = valued \cup {x}
  /\ ops' = ops + 1
  /\ UNCHANGED <<mc_rounds, simVars, celfVars, mainVars, rolls, ompVars, last_call>>

\* one pass of the <node loop of GEXFParser::parse
ParseNodeTag(nd) ==
  /\ ops < MaxOps
  /\ g' = ParseNodes(g, <<nd>>)
  /\ first_seen' = IF nd.id # "" THEN NoteSeen(first_seen, nd.id) ELSE first_seen
  /\ valued' = IF nd.id # "" /\ nd.val # NoVal THEN valued \cup {nd.id} ELSE valued
  /\ ops' = ops + 1
  /\ UNCHANGED <<mc_rounds, simVars, celfVars, mainVars, rolls, ompVars, last_call>>

\* one pass of the <edge loop of GEXFParser::parse
ParseEdgeTag(e) ==
  /\ ops < MaxOps
  /\ g' = ParseEdges(g, <<e>>)
  /\ first_seen' = IF e.s # "" /\ e.t # ""
                   THEN NoteSeen(NoteSeen(first_seen, e.s), e.t) ELSE first_seen
  /\ ops' = ops + 1
  /\ UNCHANGED <<mc_rounds, simVars, celfVars, mainVars, rolls, ompVars, valued, last_call>>

GraphNext ==
  \/ \E x \in ExtIds : GraphGetId(x)
  \/ \E x, y \in ExtIds : GraphAddEdge(x, y, 5)
  \/ \E x \in ExtIds : \E val \in {0, 2} : GraphSetValue(x, val)
  \/ \E nd \in NodeTags : ParseNodeTag(nd)
  \/ \E e \in EdgeTags : ParseEdgeTag(e)

GraphSpec == GraphInit /\ [][GraphNext]_vars

\* ------------------------------------------- MainSpec: the command line
DEFAULT_MC_ROUNDS == 1000
INT_MAX == 2147483647

Alphabet == {"7", "-", "x"}
TooLong == <<"7", "7", "7", "7", "7", "7", "7", "7", "7", "7">>
ArgStrings == UNION {[1..n -> Alphabet] : n \in 0..MaxArgLen} \cup {TooLong}

IsDigit(c) == c \in {"0", "1", "2", "3", "4", "5", "6", "7", "8", "9"}
DigitVal(c) ==
  CASE c = "0" -> 0 [] c = "1" -> 1 [] c = "2" -> 2 [] c = "3" -> 3 [] c = "4" -> 4
    [] c = "5" -> 5 [] c = "6" -> 6 [] c = "7" -> 7 [] c = "8" -> 8 [] c = "9" -> 9

\* The longest run of digits at the head of str: its length and its value,
\* accumulated as a negative number so that INT_MIN is reached without leaving
\* the 32-bit range; over is set when the run does not fit.
Fits(acc, d) ==
  \/ acc > 0 - (INT_MAX \div 10)
  \/ acc = 0 - (INT_MAX \div 10) /\ d <= (INT_MAX % 10) + 1

RECURSIVE DigitRun(_, _, _, _)
DigitRun(str, acc, n, over) ==
  IF str = <<>> \/ ~IsDigit(Head(str)) THEN [neg_value |-> acc, len |-> n, over |-> over]
  ELSE LET d == DigitVal(Head(str)) IN
       IF over \/ ~Fits(acc, d)
       THEN DigitRun(Tail(str), acc, n + 1, TRUE)
       ELSE DigitRun(Tail(str), 10 * acc - d, n + 1, FALSE)

\* std::stoi: an optional sign, then digits; what follows them is ignored
stoi(str) ==
  LET neg == str # <<>> /\ Head(str) = "-"
      signed == str # <<>> /\ Head(str) \in {"-", "+"}
      run == DigitRun(IF signed THEN Tail(str) ELSE str, 0, 0, FALSE)
  IN IF run.len = 0 THEN [kind |-> "invalid_argument", value |-> 0]
     ELSE IF run.over \/ (~neg /\ run.neg_value < 0 - INT_MAX)
     THEN [kind |-> "out_of_range", value |-> 0]
     ELSE [kind |-> "ok", value |-> IF neg THEN run.neg_value ELSE 0 - run.neg_value]

MainInit ==
  /\ CelfIdle /\ SimIdle /\ OmpIdle /\ GraphIdle /\ rolls = <<>>
  /\ g = EmptyGraph
  /\ argc \in 1..MaxArgc
  /\ arg_k \in ArgStrings
  /\ arg_mc \in ArgStrings
  /\ file_opens \in BOOLEAN
  /\ k = 0
  /\ mc_rounds = DEFAULT_MC_ROUNDS
  /\ mpc = "argc"
  /\ err = <<>>
  /\ ended = "running"
  /\ exit_code = -1

\* if (argc < 4 || argc > 5) { usage; return 1; }
MainArgc ==
  /\ mpc = "argc"
  /\ IF argc < 4 \/ argc > 5
     THEN /\ err' = Append(err, "Usage")
          /\ exit_code' = 1 /\ ended' = "exit" /\ mpc' = "end"
     ELSE /\ mpc' = "k" /\ UNCHANGED <<err, exit_code, ended>>
  /\ UNCHANGED <<g, mc_rounds, simVars, rolls, ompVars, graphVars, histVars,
                 k, pc, tpc, taken, local_pq, crit, pq, seeds,
                 current_val, iteration, found_best, out, warned, printed, phase1,
                 argc, arg_k, arg_mc, file_opens>>

\* int k = std::stoi(argv[2]);  outside the try block: an exception ends the
\* process through std::terminate
MainStoiK ==
  /\ mpc = "k"
  /\ IF stoi(arg_k).kind = "ok"
     THEN /\ k' = stoi(arg_k).value /\ mpc' = "mc" /\ UNCHANGED ended
     ELSE /\ ended' = "abort" /\ mpc' = "end" /\ UNCHANGED k
  /\ UNCHANGED <<g, mc_rounds, simVars, rolls, ompVars, graphVars, histVars,
                 pc, tpc, taken, local_pq, crit, pq, seeds,
                 current_val, iteration, found_best, out, warned, printed, phase1,
                 exit_code, argc, arg_k, arg_mc, file_opens, err>>

\* int mc_rounds = DEFAULT_MC_ROUNDS; if (argc == 5) mc_rounds = std::stoi(argv[4]);
MainStoiMc ==
  /\ mpc = "mc"
  /\ IF argc # 5
     THEN /\ mc_rounds' = DEFAULT_MC_ROUNDS /\ mpc' = "parse" /\ UNCHANGED ended
     ELSE IF stoi(arg_mc).kind = "ok"
     THEN /\ mc_rounds' = stoi(arg_mc).value /\ mpc' = "parse" /\ UNCHANGED ended
     ELSE /\ ended' = "abort" /\ mpc' = "end" /\ UNCHANGED mc_rounds
  /\ UNCHANGED <<g, simVars, rolls, ompVars, graphVars, histVars,
                 k, pc, tpc, taken, local_pq, crit, pq, seeds,
                 current_val, iteration, found_best, out, warned, printed, phase1,
                 exit_code, argc, arg_k, arg_mc, file_opens, err>>

\* try { Graph g = GEXFParser::parse(...)  throws runtime_error when the file
\* does not open;  catch (const std::exception &e) { "Error: ..."; return 1; }
MainParse ==
  /\ mpc = "parse"
  /\ IF file_opens
     THEN /\ mpc' = "celf" /\ UNCHANGED <<err, exit_code, ended>>
     ELSE /\ err' = Append(err, "Error: Cannot open file")
          /\ exit_code' = 1 /\ ended' = "exit" /\ mpc' = "end"
  /\ UNCHANGED <<g, mc_rounds, simVars, rolls, ompVars, graphVars, histVars,
                 k, pc, tpc, taken, local_pq, crit, pq, seeds,
                 current_val, iteration, found_best, out, warned, printed, phase1,
                 argc, arg_k, arg_mc, file_opens>>

\* the run of celf_weighted_influence and the printing of its result (the
\* actions of Spec), which throw nothing; then return 0
MainRun ==
  /\ mpc = "celf"
  /\ exit_code' = 0 /\ ended' = "exit" /\ mpc' = "end"
  /\ UNCHANGED <<g, mc_rounds, simVars, rolls, ompVars, graphVars, histVars,
                 k, pc, tpc, taken, local_pq, crit, pq, seeds,
                 current_val, iteration, found_best, out, warned, printed, phase1,
                 argc, arg_k, arg_mc, file_opens, err>>

MainNext == MainArgc \/ MainStoiK \/ MainStoiMc \/ MainParse \/ MainRun

MainSpec == MainInit /\ [][MainNext]_vars

\* ================================================================ claims
OutNodes == {out[j].node_id : j \in 1..Len(out)}
Returned == pc \in {"return", "exit"}

\* C1: the number of committed seeds never exceeds k; when the function has
\* returned it is k unless the exhaustion warning was written; the warning is
\* written exactly when the heap ran empty with fewer than k seeds, and the run
\* then still prints the partial seed set and exits with code 0.
C1_Cardinality ==
  /\ Cardinality(seeds) <= k
  /\ Len(out) = Cardinality(seeds)
  /\ Returned => (Cardinality(seeds) = k \/ warned)
  /\ (Returned /\ Cardinality(seeds) < k) => (warned /\ pq = EmptyBag)
  /\ warned => (Cardinality(seeds) < k /\ pq = EmptyBag /\ Returned)
  /\ pc = "exit" => (exit_code = 0 /\ Len(printed) = Cardinality(seeds))

C1_Witness ==
  /\ pc = "exit" /\ warned /\ exit_code = 0
  /\ Cardinality(seeds) > 0 /\ Cardinality(seeds) < k

\* C2 (as claimed): the reported Total Weighted Reach never decreases from one
\* "Selected Node" line to the next.
C2_ReachNonDecreasing ==
  \A j \in 1..(Len(out) - 1) : out[j + 1].reach >= out[j].reach

\* C2 (amended): each "Selected Node" line reports the previous total plus the
\* committed marginal gain (the first one the gain itself), so the total does
\* not decrease across a line whose gain is >= 0 and decreases across a line
\* whose gain is negative.
C2_ReachAddsGain ==
  /\ Len(out) >= 1 => out[1].reach = out[1].marginal_gain
  /\ \A j \in 1..(Len(out) - 1) :
       /\ out[j + 1].reach = out[j].reach + out[j + 1].marginal_gain
       /\ out[j + 1].marginal_gain >= 0 => out[j + 1].reach >= out[j].reach
       /\ out[j + 1].marginal_gain < 0 => out[j + 1].reach < out[j].reach
  /\ Len(out) >= 1 => current_val = out[Len(out)].reach

C2_Witness ==
  /\ Len(out) >= 3
  /\ out[2].marginal_gain < 0
  /\ out[3].marginal_gain > 0

\* C3: the second phase terminates: from the join of the first pass the run
\* always reaches the return of celf_weighted_influence, with k seeds or with an
\* empty heap.
C3_Terminates ==
  (pc = "for") ~> (pc = "return" /\ (Cardinality(seeds) = k \/ pq = EmptyBag))

\* a run that ended after a tie between two recomputed entries and a negative
\* recomputed gain
C3_Witness ==
  /\ pc = "return" /\ Cardinality(seeds) = k /\ k >= 2
  /\ \E j \in 1..Len(out) : out[j].marginal_gain < 0
  /\ \E e \in BagToSet(pq) : e.marginal_gain = out[Len(out)].marginal_gain

\* C4: each index is handed out once and each eligible node estimated exactly
\* once; the second phase runs only when every worker is through its critical
\* section with an empty local heap; until the first pop the shared heap is
\* exactly the bag of first-pass entries, one (i, estimate, 0) per eligible node.
EntriesOf(h, i) == {e \in BagToSet(h) : e.node_id = i}
CountOf(h, i) ==
  LET es == EntriesOf(h, i)
      f[S \in SUBSET es] ==
        IF S = {} THEN 0
        ELSE LET e == CHOOSE x \in S : TRUE IN CopiesIn(e, h) + f[S \ {e}]
  IN f[es]

RECURSIVE SumBags(_, _)
SumBags(f, S) ==
  IF S = {} THEN EmptyBag
  ELSE LET t == CHOOSE x \in S : TRUE IN f[t] (+) SumBags(f, S \ {t})

C4_Phase1Complete ==
  /\ \A i \in Indices :
       CountOf(phase1, i) = IF i \in taken /\ g.has_value[i + 1] THEN 1 ELSE 0
  /\ \A e \in BagToSet(phase1) : e.iteration_computed = 0
  /\ pc = "parallel" => phase1 = pq (+) SumBags(local_pq, Threads)
  /\ pc # "parallel" =>
       /\ taken = Indices
       /\ \A t \in Threads : tpc[t] = "done" /\ local_pq[t] = EmptyBag
  /\ (pc \in {"for", "while"} /\ seeds = {}) => pq = phase1

C4_Witness ==
  /\ pc = "while" /\ seeds = {}
  /\ pq = phase1 /\ BagCardinality(pq) = 2
  /\ \E i \in Indices : ~g.has_value[i + 1]

\* C5: no node without an assigned value is ever in a heap, in the seed set or
\* on a "Selected Node" line.
C5_OnlyEligible ==
  /\ \A i \in seeds \cup OutNodes : g.has_value[i + 1]
  /\ \A e \in BagToSet(pq) : g.has_value[e.node_id + 1]
  /\ \A t \in DOMAIN local_pq : \A e \in BagToSet(local_pq[t]) : g.has_value[e.node_id + 1]

\* B of DocChain has no value and is the only way from A to C: A's estimate of 3
\* (with one rollout) means B was activated, and B is not selected
C5_Witness ==
  /\ g = parse(DocChain) /\ mc_rounds = 1 /\ pc = "exit" /\ warned
  /\ ~g.has_value[2] /\ 1 \notin seeds
  /\ out[1] = [node_id |-> 0, marginal_gain |-> 3, reach |-> 3]

\* C6: the "Selected Node" lines name pairwise distinct nodes, the nodes of the
\* seed set.
C6_Distinct ==
  /\ \A i, j \in 1..Len(out) : i # j => out[i].node_id # out[j].node_id
  /\ OutNodes = seeds

C6_Witness == Len(out) = 3 /\ pc = "exit"

\* C7 (as claimed): the "Selected Seeds:" line lists the nodes in the order of
\* the "Selected Node" lines.
C7_SelectionOrder ==
  pc = "exit" =>
    printed = [j \in 1..Len(out) |-> g.reverse_id_map[out[j].node_id + 1]]

\* C8: every pop of the shared heap takes an entry of maximal gain and, among
\* those, of smallest node_id; operator< is a strict weak order on the entries
\* at hand; the first seed is the smallest-id node among the first-pass entries
\* of maximal estimate.
Best(e, h) ==
  \A f \in BagToSet(h) :
    \/ f.marginal_gain < e.marginal_gain
    \/ f.marginal_gain = e.marginal_gain /\ e.node_id <= f.node_id

Equiv(a, b) == ~NodeGainLess(a, b) /\ ~NodeGainLess(b, a)

StrictWeakOrder(S) ==
  /\ \A a \in S : ~NodeGainLess(a, a)
  /\ \A a, b \in S : NodeGainLess(a, b) => ~NodeGainLess(b, a)
  /\ \A a, b, c \in S : NodeGainLess(a, b) /\ NodeGainLess(b, c) => NodeGainLess(a, c)
  /\ \A a, b, c \in S : Equiv(a, b) /\ Equiv(b, c) => Equiv(a, c)

C8_PopsBest ==
  /\ [](StrictWeakOrder(BagToSet(pq) \cup BagToSet(phase1)))
  /\ [](Len(out) >= 1 =>
          \E e \in BagToSet(phase1) :
            /\ Best(e, phase1)
            /\ out[1].node_id = e.node_id
            /\ out[1].marginal_gain = e.marginal_gain)
  /\ [][\A e \in BagToSet(pq) : CopiesIn(e, pq') < CopiesIn(e, pq) => Best(e, pq)]_vars

\* the first seed was chosen among tied first-pass entries
C8_Witness ==
  /\ Len(out) >= 2
  /\ \E e \in BagToSet(phase1) :
       e.node_id # out[1].node_id /\ e.marginal_gain = out[1].marginal_gain

\* C9 (as claimed): a wrong number of arguments, a k or mc_rounds argument that
\* is no integer, or a file that does not open ends the process with exit code
\* 1 and a message on std::cerr, the usage line for bad arguments; every other
\* run exits with 0.
BadArgc == argc < 4 \/ argc > 5
BadNumber == stoi(arg_k).kind # "ok" \/ (argc = 5 /\ stoi(arg_mc).kind # "ok")
InErr(msg) == \E j \in 1..Len(err) : err[j] = msg

C9_FatalExitsOne ==
  mpc = "end" =>
    IF BadArgc \/ BadNumber
    THEN ended = "exit" /\ exit_code = 1 /\ InErr("Usage")
    ELSE IF ~file_opens
    THEN ended = "exit" /\ exit_code = 1 /\ err # <<>>
    ELSE ended = "exit" /\ exit_code = 0

\* C10: a rollout returns the sum of the values of the activated nodes, each
\* counted once; every seed is activated and only nodes reachable from a seed
\* are; so the total lies between the sum over the distinct seeds and the sum
\* over the nodes reachable from them.
RECURSIVE SumValues(_, _)
SumValues(gr, S) ==
  IF S = {} THEN 0
  ELSE LET v == CHOOSE x \in S : TRUE
       IN gr.node_values[v + 1] + SumValues(gr, S \ {v})

Succs(gr, u) == {gr.adj[u + 1][j].to : j \in 1..Len(gr.adj[u + 1])}
RECURSIVE Reach(_, _)
Reach(gr, S) ==
  LET nxt == S \cup UNION {Succs(gr, u) : u \in S}
  IN IF nxt = S THEN S ELSE Reach(gr, nxt)

SeedSet == {seed_list[j] : j \in 1..Len(seed_list)}
Activated == {v \in 0..(Len(ro.after) - 1) : ro.after[v + 1] = ro.token}

C10_RolloutTotal ==
  round >= 1 =>
    /\ ro.total = SumValues(g, Activated)
    /\ SeedSet \subseteq Activated
    /\ Activated \subseteq Reach(g, SeedSet)
    /\ SumValues(g, SeedSet) <= ro.total
    /\ ro.total <= SumValues(g, Reach(g, SeedSet))

\* a repeated seed, a self-loop, parallel edges and a cycle; B stays inactive
C10_Witness ==
  /\ g = parse(DocLoop) /\ seed_list = <<0, 0>> /\ round >= 1
  /\ Activated = {0} /\ ro.total = 1

\* C11 (as claimed): an edge of probability 0.0 never activates its target:
\* every activated node that is no seed has an incoming edge of probability
\* greater than 0 from an activated node, whatever the draws (0.0 included).
C11_ZeroEdgeNeverFires ==
  round >= 1 =>
    \A v \in Activated \ SeedSet :
      \E u \in Activated : \E j \in 1..Len(g.adj[u + 1]) :
        g.adj[u + 1][j].to = v /\ g.adj[u + 1][j].probability > 0

\* C18: the token of a rollout is never 0 and marks no node when the rollout
\* starts, also after the counter wrapped; after the increment wraps the
\* vector is all 0 and the token is 1; the marks left behind never exceed the
\* token, so the next token is unmarked as well.
C18_NoLeak ==
  /\ round = 0 => token = 1 /\ \A i \in 1..Len(last_seen) : last_seen[i] = 0
  /\ round >= 1 =>
       /\ ro.token = token /\ ro.token # 0
       /\ \A i \in 1..Len(ro.before) : ro.before[i] # ro.token
       /\ ro.token = 1 => \A i \in 1..Len(ro.before) : ro.before[i] = 0
       /\ \A i \in 1..Len(last_seen) : last_seen[i] <= token

\* the fourth rollout of a call: the counter wrapped before the third, and the
\* token in use was already used by the first rollout of the call
C18_Witness ==
  /\ round = TokenMod /\ ro.token = 2
  /\ \E i \in 1..Len(last_seen) : last_seen[i] = ro.token

\* C12: the estimate is the sum of the totals of mc_rounds rollouts of the same
\* seed set, each round run once.  Sequential version: after i passes the
\* accumulator is the sum of the totals of rounds 0..i-1.  OpenMP version:
\* each round's total is in exactly one thread's local_sum, each local_sum is
\* added to the shared accumulator once, and the value returned is the sum over
\* all MC_ROUNDS rounds, whatever the interleaving.
RECURSIVE SumOver(_, _)
SumOver(f, S) ==
  IF S = {} THEN 0
  ELSE LET x == CHOOSE y \in S : TRUE IN f[x] + SumOver(f, S \ {x})

C12_EstimateIsSum ==
  /\ omp_pc = "idle" =>
       /\ round <= mc_rounds
       /\ DOMAIN rolls = 0..(round - 1)
       /\ total_spread = SumOver(rolls, DOMAIN rolls)
       /\ round >= 1 => rolls[round - 1] = ro.total
  /\ omp_pc # "idle" =>
       /\ DOMAIN rolls = omp_taken /\ omp_taken \subseteq OmpRounds
       /\ SumOver(rolls, omp_taken) = SumOver(local_sum, Threads)
       /\ omp_total_spread = SumOver(local_sum, {t \in Threads : omp_tpc[t] = "done"})
       /\ omp_pc = "returned" =>
            /\ omp_taken = OmpRounds
            /\ omp_ret = Num(SumOver(rolls, OmpRounds))

\* a call that returned after every thread contributed a partial sum
C12_Witness ==
  /\ omp_pc = "returned" /\ mc_rounds >= 2
  /\ \A t \in Threads : local_sum[t] > 0
  /\ omp_ret = Num(SumOver(local_sum, Threads))

\* C13: adj, node_values and has_value have one entry per distinct external id
\* seen; internal ids are 0..N-1 in order of first appearance; id_map and
\* reverse_id_map are inverse of each other; every edge ends at a valid id;
\* get_internal_id of a known id returns the same id and changes nothing; a
\* node no value was set for has value 0 and has_value false.
AllEdges(gr) == UNION {{gr.adj[u][j] : j \in 1..Len(gr.adj[u])} : u \in 1..Len(gr.adj)}

C13_GraphInvariant ==
  LET n == Len(first_seen) IN
  /\ Len(g.adj) = n /\ Len(g.node_values) = n /\ Len(g.has_value) = n
  /\ num_nodes(g) = n
  /\ g.reverse_id_map = first_seen
  /\ DOMAIN g.id_map = {first_seen[j] : j \in 1..n}
  /\ \A j \in 1..n : g.id_map[first_seen[j]] = j - 1
  /\ \A x \in DOMAIN g.id_map : g.reverse_id_map[g.id_map[x] + 1] = x
  /\ \A i \in 0..(n - 1) : g.id_map[g.reverse_id_map[i + 1]] = i
  /\ \A e \in AllEdges(g) : e.to \in 0..(n - 1)
  /\ \A x \in ExtIds :
       LET once == get_internal_id(g, x)
           twice == get_internal_id(once.g, x)
       IN /\ twice.id = once.id /\ twice.g = once.g
          /\ x \in DOMAIN g.id_map => once.g = g /\ once.id = g.id_map[x]
  /\ last_call # <<>> =>
       LET c == last_call[1] IN
       c.arg \in DOMAIN c.before.id_map =>
         c.id = c.before.id_map[c.arg] /\ c.id < n
  /\ \A j \in 1..n :
       first_seen[j] \notin valued => g.node_values[j] = 0 /\ ~g.has_value[j]

\* three ids; the second was seen first as the target of an edge and has no
\* value; the last call repeated a known id
C13_Witness ==
  /\ Len(first_seen) = 3 /\ ops = MaxOps
  /\ AllEdges(g) # {}
  /\ \E j \in 1..3 : first_seen[j] \notin valued /\ \E e \in AllEdges(g) : e.to = j - 1
  /\ \E j \in 1..3 : g.has_value[j]
  /\ last_call # <<>> /\ last_call[1].arg \in DOMAIN last_call[1].before.id_map

\* C14 (as claimed): every probability stored in adj lies in [0,1], whatever
\* weight the <edge> tag carried, and is 0.1 when the tag carried none.
C14_ProbabilityClamped ==
  \A e \in AllEdges(g) : e.probability >= 0 /\ e.probability <= ProbOne

\* C15: when the estimator is an exact, monotone, submodular set function
\* sigma, the nodes the lazy loop commits, and their gains, are those plain
\* greedy selection takes: at each step the eligible non-seed u of largest
\* sigma(S + u) - sigma(S), the smallest node_id among equals.
AllCertain(gr) == \A e \in AllEdges(gr) : e.probability = ProbOne

\* the estimate of S when no draw matters
Sigma(S) ==
  IF S = {} THEN 0
  ELSE LET sl == SetToSortedSeq(S)
       IN estimate_weighted_spread(g, sl, mc_rounds,
                                   [j \in 1..(mc_rounds * MaxDraws(g, sl)) |-> 0])

\* sigma as a table over the sets of nodes (@@ makes it a table of values)
SigmaTable == [S \in SUBSET Indices |-> Sigma(S)] @@ <<>>

MonotoneSubmodular(sig) ==
  \A T \in SUBSET Indices : \A S \in SUBSET T : \A u \in Indices \ T :
    /\ sig[T \cup {u}] >= sig[T]
    /\ sig[S \cup {u}] - sig[S] >= sig[T \cup {u}] - sig[T]

GreedyGain(sig, S, u) == sig[S \cup {u}] - sig[S]

RECURSIVE GreedySeq(_, _, _)
GreedySeq(sig, S, n) ==
  LET cand == {i \in Indices \ S : g.has_value[i + 1]} IN
  IF n = 0 \/ cand = {} THEN <<>>
  ELSE LET u == CHOOSE x \in cand : \A y \in cand :
                  \/ GreedyGain(sig, S, x) > GreedyGain(sig, S, y)
                  \/ GreedyGain(sig, S, x) = GreedyGain(sig, S, y) /\ x <= y
       IN <<[node_id |-> u, marginal_gain |-> GreedyGain(sig, S, u)]>>
            \o GreedySeq(sig, S \cup {u}, n - 1)

C15_LazyIsGreedy ==
  \A sig \in {SigmaTable} :
  (AllCertain(g) /\ MonotoneSubmodular(sig)) =>
    \A greedy \in {GreedySeq(sig, {}, k)} :
    /\ Len(out) <= Len(greedy)
    /\ \A j \in 1..Len(out) :
         /\ out[j].node_id = greedy[j].node_id
         /\ out[j].marginal_gain = greedy[j].marginal_gain
    /\ Returned => Len(out) = Len(greedy)

\* a run over certain edges that returned three seeds and left an entry in the
\* heap that the last iteration never re-estimated
C15_Witness ==
  /\ Returned /\ Len(out) = 3
  /\ AllCertain(g) /\ MonotoneSubmodular(SigmaTable) /\ AllEdges(g) # {}
  /\ \E e \in BagToSet(pq) : e.iteration_computed < Cardinality(seeds) - 1

\* C16: every heap entry is stamped with at most the present seed-set size; a
\* popped entry is committed exactly when its stamp equals that size; a stale
\* one leaves seeds and current_val alone, is re-estimated for the present
\* seeds plus its node, and is pushed back with gain = estimate - current_val
\* and the present size as its stamp.
C16_FreshCommit ==
  /\ [](\A e \in BagToSet(pq) : e.iteration_computed <= Cardinality(seeds))
  /\ [][\A e \in BagToSet(pq) :
          CopiesIn(e, pq') < CopiesIn(e, pq) =>
            /\ (seeds' # seeds) <=> (e.iteration_computed = Cardinality(seeds))
            /\ e.iteration_computed = Cardinality(seeds) =>
                 seeds' = seeds \cup {e.node_id} /\ pq' = pq (-) SetToBag({e})
            /\ e.iteration_computed # Cardinality(seeds) =>
                 /\ seeds' = seeds /\ current_val' = current_val
                 /\ evals'[e.node_id].sl = Append(SetToSortedSeq(seeds), e.node_id)
                 /\ evals'[e.node_id].val = current_val
                 /\ pq' = (pq (-) SetToBag({e})) (+)
                           SetToBag({[node_id |-> e.node_id,
                                      marginal_gain |->
                                        DSub(evals'[e.node_id].est, current_val),
                                      iteration_computed |-> Cardinality(seeds)]})]_vars

\* the heap holds a fresh recomputed entry next to one still stamped 0, after
\* one commit
C16_Witness ==
  /\ pc = "while" /\ Cardinality(seeds) = 1 /\ ~found_best
  /\ \E e \in BagToSet(pq) : e.iteration_computed = 1
  /\ \E e \in BagToSet(pq) : e.iteration_computed = 0

\* C17: at one seed-set size no node is re-estimated twice, and the second
\* phase makes at most k * (number of eligible nodes) estimator calls.
C17_OneRecomputePerIteration ==
  /\ \A u \in DOMAIN recomputed : recomputed[u] <= 1
  /\ est_calls <= k * Cardinality({i \in Indices : g.has_value[i + 1]})
  /\ est_calls <= k * BagCardinality(phase1)

\* two nodes re-estimated at the same seed-set size, with equal gains: the next
\* pop meets one of them again
C17_Witness ==
  /\ pc = "while" /\ ~found_best /\ est_calls = 2
  /\ \E e1, e2 \in BagToSet(pq) :
       /\ e1.node_id # e2.node_id /\ e1.marginal_gain = e2.marginal_gain
       /\ Count(recomputed, e1.node_id) = 1 /\ Count(recomputed, e2.node_id) = 1
       /\ e1.iteration_computed = Cardinality(seeds)
       /\ e2.iteration_computed = Cardinality(seeds)

\* C19: from the join on, every eligible node is in the seed set or has exactly
\* one entry in the heap, never both; a node without value is in neither; the
\* "already in seeds" branch is never taken.
C19_SeedOrOneEntry ==
  /\ ~discarded
  /\ pc \in {"for", "while", "return", "exit"} =>
       \A i \in Indices :
         IF g.has_value[i + 1]
         THEN \/ i \in seeds /\ CountOf(pq, i) = 0
              \/ i \notin seeds /\ CountOf(pq, i) = 1
         ELSE i \notin seeds /\ CountOf(pq, i) = 0

\* between two pops of the second iteration, after a re-estimation
C19_Witness ==
  /\ pc = "while" /\ ~found_best /\ Cardinality(seeds) = 1
  /\ BagCardinality(pq) >= 1 /\ est_calls >= 1
  /\ \E i \in Indices : ~g.has_value[i + 1]

\* C20 (as claimed): after every commit current_val equals the estimate the
\* committed node was last evaluated with.
C20_CurrentValIsEstimate ==
  \A j \in 1..Len(out) : out[j].reach = evals[out[j].node_id].est

\* C20 (amended): the committed node's last evaluation was made for the seed
\* set in force at the commit plus the node, and against the current_val in
\* force at the commit; the committed gain is the double estimate -
\* current_val, and current_val becomes the double current_val + gain: the
\* estimate itself whenever estimate - current_val is representable (as it is
\* for current_val / 2 <= estimate <= 2 * current_val), otherwise a
\* neighbouring double.
C20_CurrentValTracksEstimate ==
  /\ Len(out) >= 1 => current_val = out[Len(out)].reach
  /\ \A j \in 1..Len(out) :
       LET u == out[j].node_id
           ev == evals[u]
           prev == IF j = 1 THEN 0 ELSE out[j - 1].reach
       IN /\ ev.val = prev
          /\ Len(ev.sl) = j /\ ev.sl[j] = u
          /\ {ev.sl[i] : i \in 1..j} = {out[i].node_id : i \in 1..j}
          /\ out[j].marginal_gain = DSub(ev.est, prev)
          /\ out[j].reach = DAdd(prev, DSub(ev.est, prev))
          /\ Representable(ev.est - prev) => out[j].reach = ev.est
          /\ (prev >= 0 /\ prev <= 2 * ev.est /\ ev.est <= 2 * prev) =>
               out[j].reach = ev.est

\* a commit after which current_val is not the estimate
C20_Witness ==
  /\ Len(out) >= 2 /\ current_val = out[Len(out)].reach
  /\ ~Representable(evals[out[2].node_id].est - out[1].reach)
  /\ out[2].reach # evals[out[2].node_id].est

====
